---- MODULE Spec2Model ----
(***************************************************************************)
(* A model of ngsutils' BAM statistics (bam_utils/bam_stats.py) and        *)
(* clipping removal (ngsutils/bam/removeclipping.py).                      *)
(*                                                                         *)
(* Python values are modelled as follows: a dict is a function whose       *)
(* DOMAIN is the set of keys, a list is a sequence, a tuple is a tuple, an *)
(* optional integer (None or a number) is the empty or the one-element     *)
(* sequence, an optional string is the string "None" or the string, and a  *)
(* float quotient n/d is the pair <<n, d>> compared by cross product.      *)
(***************************************************************************)
EXTENDS Integers, Sequences, FiniteSets, TLC

VARIABLES
    \* RangeMatch under test (SpecRange)
    ranges,         \* RangeMatch.ranges: chrom -> bin -> list of (start, end, strand)
    inserted,       \* history: the add_range calls made so far, in call order
    \* FeatureBin under test (SpecBin)
    tagbin,         \* the FeatureBin object
    tag_arg,        \* history: the constructor argument
    observed,       \* history: the values added so far, in call order
    yielded,        \* history: the pairs the current for loop got from next()
    iter_state,     \* "idle", "active" (after __iter__) or "stopped" (StopIteration)
    loops,          \* history: the number of for loops run to StopIteration
    \* bam_removeclipping (SpecClip)
    cpc,            \* "loop" (in the for loop), "raised" (left by an exception) or "done"
    bam,            \* the input stream: "open" or "closed"
    out,            \* the output stream: "open" or "closed"
    clip_read,      \* read: the record of the current iteration, as written or left
    clip_total,     \* total: records written
    clip_count,     \* count: records altered
    changed,        \* the changed flag of the last iteration
    orig,           \* history: the record of the last iteration as it was read
    run,            \* history: 1, or 2 when the input is the output of run 1
    \* RegionTagger (SpecTagger, Spec)
    regiontagger,   \* <<>> for None, or <<the RegionTagger object>>
    read,           \* the record last passed to add_read / bound by the for loop
    calls,          \* history: the number of add_read calls
    mapped_calls,   \* history: the number of add_read calls on a mapped record
    \* bam_stats (Spec)
    pc,             \* where bam_stats is: "fetch", "flag", "names", "total", "check",
                    \* "refs", "tagger", "tagbins", "report", "done" or "raised"
    bamfile,        \* the input stream: "open" or "closed"
    total,
    mapped,
    unmapped,
    names,          \* the set of read names seen
    flag_counts,    \* raw flag value -> number of records
    refs,           \* reference name -> number of mapped records
    tagbins,        \* the list of FeatureBin objects
    ti,             \* the position of "for tagbin in tagbins" (line 343)
    report,         \* the sections printed so far
    fetched,        \* history: the names of the records read_gen() has yielded
    counted,        \* history: the flags of the records that passed line 317
    at_interrupt,   \* history: <<>>, or <<the values held when KeyboardInterrupt came>>
    delim,          \* the delim argument: "None", or the separator
    \* bam_removeclipping over a whole stream (SpecStream)
    consumed,       \* history: the records "for read in bam" has bound, in order
    written,        \* the records passed to out.write, in order
    \* the region argument of bam_stats (SpecRegion)
    rpc,            \* "args" (before line 273), "parsed" (after line 282) or "raised"
    region,         \* the region argument, a sequence of characters
    region_src,     \* history: what the caller built the argument from
    ref,
    region_start,   \* start
    region_end      \* end

vars == <<ranges, inserted, tagbin, tag_arg, observed, yielded, iter_state, loops,
          cpc, bam, out, clip_read, clip_total, clip_count, changed, orig, run,
          regiontagger, read, calls, mapped_calls,
          pc, bamfile, total, mapped, unmapped, names, flag_counts, refs, tagbins, ti,
          report, fetched, counted, at_interrupt, delim,
          consumed, written,
          rpc, region, region_src, ref, region_start, region_end>>

rangeVars == <<ranges, inserted>>
binVars == <<tagbin, tag_arg, observed, yielded, iter_state, loops>>
clipVars == <<cpc, bam, out, clip_read, clip_total, clip_count, changed, orig, run>>
taggerVars == <<regiontagger, read, calls, mapped_calls>>
statsVars == <<pc, bamfile, total, mapped, unmapped, names, flag_counts, refs, tagbins, ti,
               report, fetched, counted, at_interrupt, delim>>
streamVars == <<consumed, written>>
regionVars == <<rpc, region, region_src, ref, region_start, region_end>>

None == "None"
EmptyDict == [k \in {} |-> 0]

\* the values of the variables a specification does not use
RangeUnused == ranges = EmptyDict /\ inserted = <<>>
BinUnused ==
    /\ tagbin = <<>> /\ tag_arg = <<>> /\ observed = <<>> /\ yielded = <<>>
    /\ iter_state = "idle" /\ loops = 0
ClipUnused ==
    /\ cpc = "done" /\ bam = "closed" /\ out = "closed" /\ clip_read = <<>>
    /\ clip_total = 0 /\ clip_count = 0 /\ changed = FALSE /\ orig = <<>> /\ run = 1
TaggerUnused == regiontagger = <<>> /\ read = <<>> /\ calls = 0 /\ mapped_calls = 0
StatsUnused ==
    /\ pc = "done" /\ bamfile = "closed" /\ total = 0 /\ mapped = 0 /\ unmapped = 0
    /\ names = {} /\ flag_counts = EmptyDict /\ refs = EmptyDict /\ tagbins = <<>>
    /\ ti = 0 /\ report = <<>> /\ fetched = {} /\ counted = <<>> /\ at_interrupt = <<>>
    /\ delim = None
StreamUnused == consumed = <<>> /\ written = <<>>
RegionUnused ==
    /\ rpc = "parsed" /\ region = <<>> /\ region_src = <<>> /\ ref = None
    /\ region_start = <<>> /\ region_end = <<>>

(***************************************************************************)
(* RangeMatch, bam_stats.py:79-118                                         *)
(***************************************************************************)
BUCKET_SIZE == 100000

\* dict.setdefault(bin, []) followed by list.insert(0, iv) on the bins given
InsertFront(d, bins, iv) ==
    [b \in (DOMAIN d) \cup bins |->
        IF b \in bins
        THEN <<iv>> \o (IF b \in DOMAIN d THEN d[b] ELSE <<>>)
        ELSE d[b]]

\* add_range without lines 98-102: the interval goes into the bucket of its
\* start alone
add_range_StartBucketOnly(rs, chrom, strand, start, end) ==
    LET bin == start \div BUCKET_SIZE
        old == IF chrom \in DOMAIN rs THEN rs[chrom] ELSE EmptyDict
        new == InsertFront(old, {bin}, <<start, end, strand>>)
    IN  [c \in (DOMAIN rs) \cup {chrom} |-> IF c = chrom THEN new ELSE rs[c]]

\* add_range with a division that rounds towards zero, as C's does
add_range_Truncating(rs, chrom, strand, start, end) ==
    LET Trunc(a) == IF a < 0 THEN -((-a) \div BUCKET_SIZE) ELSE a \div BUCKET_SIZE
        bin   == Trunc(start)
        bins  == IF Trunc(end) # bin THEN {bin} \cup ((bin + 1)..Trunc(end)) ELSE {bin}
        old   == IF chrom \in DOMAIN rs THEN rs[chrom] ELSE EmptyDict
        new   == InsertFront(old, bins, <<start, end, strand>>)
    IN  [c \in (DOMAIN rs) \cup {chrom} |-> IF c = chrom THEN new ELSE rs[c]]

\* RangeMatch.add_range: the bucket of start, then xrange(bin + 1, end / 100000 + 1)
add_range(rs, chrom, strand, start, end) ==
    LET bin   == start \div BUCKET_SIZE
        bins  == IF (end \div BUCKET_SIZE) # bin
                 THEN {bin} \cup ((bin + 1)..(end \div BUCKET_SIZE))
                 ELSE {bin}
        old   == IF chrom \in DOMAIN rs THEN rs[chrom] ELSE EmptyDict
        new   == InsertFront(old, bins, <<start, end, strand>>)
    IN  [c \in (DOMAIN rs) \cup {chrom} |-> IF c = chrom THEN new ELSE rs[c]]

\* the for loop of get_tag without line 115: an interval of the other
\* strand is passed over
RECURSIVE ScanBucket_NoRev(_, _, _, _, _, _, _)
ScanBucket_NoRev(lst, i, name, strand, pos, ignore_strand, rev_match) ==
    IF i > Len(lst)
    THEN IF rev_match THEN name \o "-rev" ELSE None
    ELSE IF pos >= lst[i][1] /\ pos <= lst[i][2] /\ (ignore_strand \/ strand = lst[i][3])
         THEN name
         ELSE ScanBucket_NoRev(lst, i + 1, name, strand, pos, ignore_strand, rev_match)

\* the for loop of get_tag over one bucket list, from index i on
RECURSIVE ScanBucket(_, _, _, _, _, _, _)
ScanBucket(lst, i, name, strand, pos, ignore_strand, rev_match) ==
    IF i > Len(lst)
    THEN IF rev_match THEN name \o "-rev" ELSE None
    ELSE IF pos >= lst[i][1] /\ pos <= lst[i][2]
         THEN IF ignore_strand \/ strand = lst[i][3]
              THEN name
              ELSE ScanBucket(lst, i + 1, name, strand, pos, ignore_strand, TRUE)
         ELSE ScanBucket(lst, i + 1, name, strand, pos, ignore_strand, rev_match)

\* get_tag returning at the first interval of the bucket that contains pos,
\* with "-rev" if that one is of the other strand
get_tag_Newest(rs, name, chrom, strand, pos, ignore_strand) ==
    IF chrom \notin DOMAIN rs
    THEN None
    ELSE LET bin == pos \div BUCKET_SIZE
         IN  IF bin \notin DOMAIN rs[chrom]
             THEN None
             ELSE LET lst == rs[chrom][bin]
                      hits == {i \in 1..Len(lst) : pos >= lst[i][1] /\ pos <= lst[i][2]}
                  IN  IF hits = {} THEN None
                      ELSE LET i == CHOOSE h \in hits : \A g \in hits : h <= g
                           IN  IF ignore_strand \/ strand = lst[i][3]
                               THEN name
                               ELSE name \o "-rev"

\* RangeMatch.get_tag
get_tag(rs, name, chrom, strand, pos, ignore_strand) ==
    IF chrom \notin DOMAIN rs
    THEN None
    ELSE LET bin == pos \div BUCKET_SIZE
         IN  IF bin \notin DOMAIN rs[chrom]
             THEN None
             ELSE ScanBucket(rs[chrom][bin], 1, name, strand, pos, ignore_strand, FALSE)

(***************************************************************************)
(* Alignment records (pysam.AlignedRead) as the two programs read them     *)
(***************************************************************************)
\* a & b on non-negative integers
RECURSIVE BitAnd(_, _)
BitAnd(a, b) ==
    IF a = 0 \/ b = 0
    THEN 0
    ELSE 2 * BitAnd(a \div 2, b \div 2) + (IF a % 2 = 1 /\ b % 2 = 1 THEN 1 ELSE 0)

is_unmapped(rd) == BitAnd(rd.flag, 4) # 0
is_reverse(rd) == BitAnd(rd.flag, 16) # 0

\* read.opt(tag): the value of the first tag of that name, <<>> for KeyError
RECURSIVE OptFrom(_, _, _)
OptFrom(tags, i, tag) ==
    IF i > Len(tags) THEN <<>>
    ELSE IF tags[i][1] = tag THEN <<tags[i][2]>>
    ELSE OptFrom(tags, i + 1, tag)

opt(rd, tag) == OptFrom(rd.tags, 1, tag)

\* bam_utils.read_calc_mismatches: edit distance, an indel counted once
RECURSIVE IndelExcess(_, _)
IndelExcess(cigar, i) ==
    IF i > Len(cigar) THEN 0
    ELSE (IF cigar[i][1] \in {1, 2} THEN cigar[i][2] - 1 ELSE 0) + IndelExcess(cigar, i + 1)

read_calc_mismatches(rd) ==
    IF opt(rd, "NM") = <<>> THEN <<>>
    ELSE <<opt(rd, "NM")[1] - IndelExcess(rd.cigar, 1)>>

(***************************************************************************)
(* FeatureBin, bam_stats.py:121-186                                        *)
(***************************************************************************)
\* str.split(sep) on a string given as its sequence of characters
RECURSIVE Split(_, _)
Split(s, sep) ==
    IF \A i \in 1..Len(s) : s[i] # sep
    THEN <<s>>
    ELSE LET i == CHOOSE j \in 1..Len(s) : s[j] = sep /\ \A k \in 1..(j - 1) : s[k] # sep
         IN  <<SubSeq(s, 1, i - 1)>> \o Split(SubSeq(s, i + 1, Len(s)), sep)

\* the string of a sequence of characters
RECURSIVE Str(_)
Str(cs) == IF cs = <<>> THEN "" ELSE cs[1] \o Str(Tail(cs))

\* FeatureBin.__init__
FeatureBin(tag) ==
    LET spl == Split(tag, ":")
    IN  [tag     |-> Str(spl[1]),
         asc     |-> IF Len(spl) > 1 THEN spl[2] = <<"+">> ELSE TRUE,
         bins    |-> EmptyDict,
         keys    |-> <<>>,
         min     |-> <<>>,
         max     |-> <<>>,
         cur_pos |-> -1]

\* list.sort() on integers
RECURSIVE SortInsert(_, _)
SortInsert(sorted, v) ==
    IF sorted = <<>> THEN <<v>>
    ELSE IF v <= sorted[1] THEN <<v>> \o sorted
    ELSE <<sorted[1]>> \o SortInsert(Tail(sorted), v)

RECURSIVE Sort(_)
Sort(lst) == IF lst = <<>> THEN <<>> ELSE SortInsert(Sort(Tail(lst)), lst[1])

\* list.reverse()
Reverse(lst) == [i \in 1..Len(lst) |-> lst[Len(lst) + 1 - i]]

\* __iter__ without the sort of line 137
FeatureBin_iter_NoSort(fb) ==
    [fb EXCEPT !.keys = IF fb.asc THEN fb.keys ELSE Reverse(fb.keys),
               !.cur_pos = -1]

\* FeatureBin.__iter__
FeatureBin_iter(fb) ==
    [fb EXCEPT !.keys = IF fb.asc THEN Sort(fb.keys) ELSE Reverse(Sort(fb.keys)),
               !.cur_pos = -1]

\* FeatureBin.next: the object after the call, and the pair it returns
\* (<<>> when it raises StopIteration)
FeatureBin_next(fb) ==
    LET cur == fb.cur_pos + 1
    IN  [self   |-> [fb EXCEPT !.cur_pos = cur],
         result |-> IF Len(fb.keys) <= cur
                    THEN <<>>
                    ELSE <<fb.keys[cur + 1], fb.bins[fb.keys[cur + 1]]>>]

\* the loop of FeatureBin.mean over the keys in ks: <<acc, count>>
RECURSIVE MeanLoop(_, _)
MeanLoop(bins, ks) ==
    IF ks = {} THEN <<0, 0>>
    ELSE LET k == CHOOSE x \in ks : TRUE
             rest == MeanLoop(bins, ks \ {k})
         IN  <<rest[1] + k * bins[k], rest[2] + bins[k]>>

\* FeatureBin.mean: float(acc) / count as <<acc, count>>; count = 0 is the
\* ZeroDivisionError of an empty distribution
FeatureBin_mean(fb) == MeanLoop(fb.bins, DOMAIN fb.bins)

\* FeatureBin.max
FeatureBin_max(fb) == fb.max

\* Python's "not x" for None or a number
Falsy(x) == x = <<>> \/ x[1] = 0

\* the value FeatureBin.add reads from the record; <<>> when the lookup raises
FeatureBin_val(fb, rd) ==
    IF fb.tag \in {"LENGTH", "LEN"} THEN <<Len(rd.seq)>>
    ELSE IF fb.tag = "MAPQ" THEN <<rd.mapq>>
    ELSE IF fb.tag = "MISMATCH" THEN read_calc_mismatches(rd)
    ELSE opt(rd, fb.tag)

\* FeatureBin.add, for a record whose value lookup succeeds
FeatureBin_add(fb, rd) ==
    LET val  == FeatureBin_val(fb, rd)[1]
        seen == val \in DOMAIN fb.bins
    IN  [fb EXCEPT
            !.bins = [k \in (DOMAIN fb.bins) \cup {val} |->
                         IF k = val THEN (IF seen THEN fb.bins[k] ELSE 0) + 1
                         ELSE fb.bins[k]],
            !.keys = IF seen THEN fb.keys ELSE Append(fb.keys, val),
            !.min  = IF Falsy(fb.min) \/ fb.min[1] > val THEN <<val>> ELSE fb.min,
            !.max  = IF Falsy(fb.max) \/ fb.max[1] < val THEN <<val>> ELSE fb.max]

(***************************************************************************)
(* SpecBin: one FeatureBin, any sequence of add calls and for loops        *)
(***************************************************************************)
MaxAdds == 4
MaxLoops == 2
BinTagArgs == { <<"N", "M">>, <<"N", "M", ":", "+">>, <<"N", "M", ":", "-">>,
                <<"M", "A", "P", "Q", ":", "-">> }
BinValues == {-1, 0, 1, 2, 3}

\* a mapped record whose NM tag and mapping quality are both v
BinRead(v) ==
    [qname |-> "q1", flag |-> 0, rname |-> "chr1", pos |-> 0, mapq |-> v,
     cigar |-> << <<0, 2>> >>, seq |-> <<"A", "C">>, qual |-> <<"I", "I">>,
     tags |-> << <<"NM", v>> >>]

BinInit ==
    /\ tag_arg \in BinTagArgs
    /\ tagbin = FeatureBin(tag_arg)
    /\ observed = <<>>
    /\ yielded = <<>>
    /\ iter_state = "idle"
    /\ loops = 0
    /\ RangeUnused /\ ClipUnused /\ TaggerUnused /\ StatsUnused /\ StreamUnused /\ RegionUnused

\* tagbin.add(read); no for loop over the distribution is running
BinAdd(rd) ==
    /\ iter_state # "active"
    /\ Len(observed) < MaxAdds
    /\ FeatureBin_val(tagbin, rd) # <<>>
    /\ tagbin' = FeatureBin_add(tagbin, rd)
    /\ observed' = Append(observed, FeatureBin_val(tagbin, rd)[1])
    /\ yielded' = <<>>
    /\ iter_state' = "idle"
    /\ UNCHANGED <<tag_arg, loops, rangeVars, clipVars, taggerVars, statsVars, streamVars, regionVars>>

\* "for val, count in tagbin" starts: iter(tagbin)
BinIter ==
    /\ iter_state # "active"
    /\ loops < MaxLoops
    /\ tagbin' = FeatureBin_iter(tagbin)
    /\ yielded' = <<>>
    /\ iter_state' = "active"
    /\ UNCHANGED <<tag_arg, observed, loops, rangeVars, clipVars, taggerVars, statsVars, streamVars, regionVars>>

\* the for loop asks for the next pair
BinNextItem ==
    /\ iter_state = "active"
    /\ LET r == FeatureBin_next(tagbin)
       IN  /\ tagbin' = r.self
           /\ IF r.result = <<>>
              THEN iter_state' = "stopped" /\ yielded' = yielded /\ loops' = loops + 1
              ELSE iter_state' = "active" /\ yielded' = Append(yielded, r.result)
                   /\ loops' = loops
    /\ UNCHANGED <<tag_arg, observed, rangeVars, clipVars, taggerVars, statsVars, streamVars, regionVars>>

BinNext ==
    \/ \E v \in BinValues : BinAdd(BinRead(v))
    \/ BinIter
    \/ BinNextItem

SpecBin == BinInit /\ [][BinNext]_vars

\* the elements of a finite set of integers in ascending order
RECURSIVE Ascending(_)
Ascending(S) ==
    IF S = {} THEN <<>>
    ELSE LET m == CHOOSE x \in S : \A y \in S : x <= y
         IN  <<m>> \o Ascending(S \ {m})

Occurrences(lst, v) == Cardinality({i \in 1..Len(lst) : lst[i] = v})

RECURSIVE SumOf(_)
SumOf(lst) == IF lst = <<>> THEN 0 ELSE lst[1] + SumOf(Tail(lst))

\* the constructor argument ends in ":-"
Descending(arg) == Len(arg) >= 2 /\ arg[Len(arg) - 1] = ":" /\ arg[Len(arg)] = "-"

\* what a for loop over the distribution has to yield for the values observed
ExpectedPairs ==
    LET asc == Ascending({observed[i] : i \in 1..Len(observed)})
        ord == IF Descending(tag_arg)
               THEN [i \in 1..Len(asc) |-> asc[Len(asc) + 1 - i]]
               ELSE asc
    IN  [i \in 1..Len(ord) |-> <<ord[i], Occurrences(observed, ord[i])>>]

\* C8: a for loop over the distribution yields every distinct observed value
\* once with its number of occurrences, ascending by default and descending
\* for ":-", on a first and on a repeated loop; mean is sum(value * count)
\* over sum(count).
C8_Iteration ==
    /\ iter_state = "stopped" => yielded = ExpectedPairs
    /\ iter_state = "active" =>
          /\ Len(yielded) <= Len(ExpectedPairs)
          /\ yielded = SubSeq(ExpectedPairs, 1, Len(yielded))
    /\ observed # <<>> => FeatureBin_mean(tagbin) = <<SumOf(observed), Len(observed)>>

\* C8's case: values 1, 1, 2, 3 in a descending distribution, looped over for
\* the second time after a value arrived out of order.
C8_Witness ==
    /\ tag_arg = <<"N", "M", ":", "-">>
    /\ observed = <<1, 3, 2, 1>>
    /\ loops = 2
    /\ iter_state = "stopped"
    /\ yielded = << <<3, 1>>, <<2, 1>>, <<1, 2>> >>
    /\ FeatureBin_mean(tagbin) = <<7, 4>>

LargestOf(lst) == CHOOSE x \in {lst[i] : i \in 1..Len(lst)} : \A j \in 1..Len(lst) : lst[j] <= x

\* C9: once a value has been added, max is the largest value observed so
\* far, zero and negative values included.
C9_MaxIsLargest ==
    observed # <<>> => FeatureBin_max(tagbin) = <<LargestOf(observed)>>

(***************************************************************************)
(* bam_removeclipping, removeclipping.py:20-77                             *)
(***************************************************************************)
\* the cigar loop with a soft clip measured and left in the new cigar
RECURSIVE CigarLoop_KeepSoft(_, _, _)
CigarLoop_KeepSoft(cigar, i, st) ==
    IF i > Len(cigar) THEN st
    ELSE LET op == cigar[i][1]
             length == cigar[i][2]
         IN  CigarLoop_KeepSoft(cigar, i + 1,
                 IF op = 5 THEN [st EXCEPT !.changed = TRUE]
                 ELSE IF op = 4
                      THEN IF ~st.inseq
                           THEN [st EXCEPT !.changed = TRUE, !.clip_5 = length,
                                           !.newcigar = Append(st.newcigar, <<op, length>>)]
                           ELSE [st EXCEPT !.changed = TRUE, !.clip_3 = length,
                                           !.newcigar = Append(st.newcigar, <<op, length>>)]
                 ELSE [st EXCEPT !.inseq = TRUE,
                                 !.newcigar = Append(st.newcigar, <<op, length>>)])

\* the for loop over read.cigar (lines 33-44), from index i on; st holds
\* changed, inseq, clip_5, clip_3 and newcigar
RECURSIVE CigarLoop(_, _, _)
CigarLoop(cigar, i, st) ==
    IF i > Len(cigar) THEN st
    ELSE LET op == cigar[i][1]
             length == cigar[i][2]
         IN  CigarLoop(cigar, i + 1,
                 IF op = 5 THEN [st EXCEPT !.changed = TRUE]
                 ELSE IF op = 4
                      THEN IF ~st.inseq
                           THEN [st EXCEPT !.changed = TRUE, !.clip_5 = length]
                           ELSE [st EXCEPT !.changed = TRUE, !.clip_3 = length]
                 ELSE [st EXCEPT !.inseq = TRUE,
                                 !.newcigar = Append(st.newcigar, <<op, length>>)])

\* s[lo:] for lo >= 0
SliceFrom(s, lo) == IF lo >= Len(s) THEN <<>> ELSE SubSeq(s, lo + 1, Len(s))

\* s[lo:] where s[lo:-back] is meant
SliceFromTo_KeepTail(s, lo, back) == IF lo >= Len(s) THEN <<>> ELSE SubSeq(s, lo + 1, Len(s))

\* s[lo:-back] for lo >= 0 and back > 0
SliceFromTo(s, lo, back) ==
    IF Len(s) - back <= lo THEN <<>> ELSE SubSeq(s, lo + 1, Len(s) - back)

\* the body of the for loop over the records (lines 26-70): the record as it
\* is written, the changed flag, and whether line 66 divides by zero
RemoveClipping(rec) ==
    LET st == IF is_unmapped(rec)
              THEN [changed |-> FALSE, inseq |-> FALSE, clip_5 |-> 0, clip_3 |-> 0,
                    newcigar |-> <<>>]
              ELSE CigarLoop(rec.cigar, 1,
                       [changed |-> FALSE, inseq |-> FALSE, clip_5 |-> 0, clip_3 |-> 0,
                        newcigar |-> <<>>])
        orig_length == Len(rec.seq)
        newtags == rec.tags
                   \o (IF st.clip_5 # 0 THEN << <<"ZA", st.clip_5>> >> ELSE <<>>)
                   \o (IF st.clip_3 # 0 THEN << <<"ZB", st.clip_3>> >> ELSE <<>>)
                   \o << <<"ZC", <<st.clip_5 + st.clip_3, orig_length>> >> >>
    IN  IF ~st.changed
        THEN [read |-> rec, changed |-> FALSE, raises |-> FALSE]
        ELSE [read |->
                 [rec EXCEPT
                     !.cigar = st.newcigar,
                     !.seq  = IF st.clip_3 # 0
                              THEN SliceFromTo(rec.seq, st.clip_5, st.clip_3)
                              ELSE SliceFrom(rec.seq, st.clip_5),
                     !.qual = IF st.clip_3 # 0
                              THEN SliceFromTo(rec.qual, st.clip_5, st.clip_3)
                              ELSE SliceFrom(rec.qual, st.clip_5),
                     !.tags = newtags],
              changed |-> TRUE,
              raises |-> orig_length = 0]

(***************************************************************************)
(* SpecClip: bam_removeclipping over any input records, and over the       *)
(* records it wrote itself                                                 *)
(***************************************************************************)
MaxRecs == 1
MaxCigar == 3
\* M, D, S (two lengths, to tell the ends apart) and H
ClipOps == { <<0, 1>>, <<2, 1>>, <<4, 1>>, <<4, 2>>, <<5, 1>> }
\* the cigars of the unmapped records: none, and one with clipping
UnmappedCigars == { <<>>, << <<4, 2>>, <<0, 1>>, <<5, 1>> >> }
Bases == <<"A", "C", "G", "T", "N">>
Quals == <<"!", "5", "?", "I", "~">>

RECURSIVE SeqsUpTo(_, _)
SeqsUpTo(S, n) ==
    IF n = 0 THEN { <<>> }
    ELSE LET shorter == SeqsUpTo(S, n - 1)
         IN  shorter \cup { Append(c, x) : c \in shorter, x \in S }

\* the number of bases the operations M, I and S of a cigar stand for
RECURSIVE QueryLength(_, _)
QueryLength(cigar, i) ==
    IF i > Len(cigar) THEN 0
    ELSE (IF cigar[i][1] \in {0, 1, 4} THEN cigar[i][2] ELSE 0) + QueryLength(cigar, i + 1)

\* a record with that cigar: seq and qual as long as the cigar says
ClipRecord(flag, cigar) ==
    LET L == QueryLength(cigar, 1)
    IN  [qname |-> "q1", flag |-> flag, rname |-> "chr1", pos |-> 0, mapq |-> 30,
         cigar |-> cigar,
         seq   |-> [i \in 1..L |-> Bases[((i - 1) % 5) + 1]],
         qual  |-> [i \in 1..L |-> Quals[((i - 1) % 5) + 1]],
         tags  |-> << <<"NM", 1>> >>]

ClipRecords ==
    { ClipRecord(0, c) : c \in SeqsUpTo(ClipOps, MaxCigar) }
        \cup { ClipRecord(4, c) : c \in UnmappedCigars }

ClipInit ==
    /\ cpc = "loop" /\ bam = "open" /\ out = "open"
    /\ clip_read = <<>> /\ orig = <<>> /\ changed = FALSE
    /\ clip_total = 0 /\ clip_count = 0
    /\ run = 1
    /\ RangeUnused /\ BinUnused /\ TaggerUnused /\ StatsUnused /\ StreamUnused /\ RegionUnused

\* one iteration with line 70 outside "if changed": every record is counted
\* as altered
ClipIteration_CountsAll(rec) ==
    /\ cpc = "loop"
    /\ LET r == RemoveClipping(rec)
       IN  /\ ~r.raises
           /\ clip_read' = r.read
           /\ changed' = r.changed
    /\ clip_count' = clip_count + 1
    /\ clip_total' = clip_total + 1
    /\ orig' = rec
    /\ UNCHANGED <<cpc, bam, out, run, rangeVars, binVars, taggerVars, statsVars, regionVars>>

\* one iteration of "for read in bam" that reaches out.write(read); the
\* histories of the stream are the caller's
ClipIteration(rec) ==
    /\ cpc = "loop"
    /\ LET r == RemoveClipping(rec)
       IN  /\ ~r.raises
           /\ clip_read' = r.read
           /\ changed' = r.changed
           /\ clip_count' = IF r.changed THEN clip_count + 1 ELSE clip_count
    /\ clip_total' = clip_total + 1
    /\ orig' = rec
    /\ UNCHANGED <<cpc, bam, out, run, rangeVars, binVars, taggerVars, statsVars, regionVars>>

\* one iteration that raises ZeroDivisionError at line 66: the record is
\* half rewritten and not written, and the function is left
ClipRaises(rec) ==
    /\ cpc = "loop"
    /\ LET r == RemoveClipping(rec)
       IN  /\ r.raises
           /\ clip_read' = [r.read EXCEPT !.tags = rec.tags]
           /\ changed' = r.changed
    /\ orig' = rec
    /\ cpc' = "raised"
    /\ UNCHANGED <<bam, out, clip_total, clip_count, run, rangeVars, binVars, taggerVars,
                   statsVars, regionVars>>

\* a record of the first run's input is written
ClipFresh ==
    /\ run = 1
    /\ clip_total < MaxRecs
    /\ \E rec \in ClipRecords : ClipIteration(rec)
    /\ UNCHANGED streamVars

\* a record of the first run's input raises
ClipFreshRaises ==
    /\ run = 1
    /\ clip_total < MaxRecs
    /\ \E rec \in ClipRecords : ClipRaises(rec)
    /\ UNCHANGED streamVars

\* the first record of the second run: what the first run wrote last
ClipAgain ==
    /\ run = 2
    /\ clip_total = 0
    /\ ClipIteration(clip_read)
    /\ UNCHANGED streamVars

\* the input is exhausted: lines 75-77
ClipEnd ==
    /\ cpc = "loop"
    /\ bam' = "closed"
    /\ out' = "closed"
    /\ cpc' = "done"
    /\ UNCHANGED <<clip_read, clip_total, clip_count, changed, orig, run, rangeVars, binVars,
                   taggerVars, statsVars, streamVars, regionVars>>

\* bam_removeclipping is run on the file it wrote
ClipRerun ==
    /\ cpc = "done"
    /\ run = 1
    /\ clip_total > 0
    /\ run' = 2
    /\ cpc' = "loop" /\ bam' = "open" /\ out' = "open"
    /\ clip_total' = 0 /\ clip_count' = 0
    /\ changed' = FALSE
    /\ UNCHANGED <<clip_read, orig, rangeVars, binVars, taggerVars, statsVars, streamVars,
                   regionVars>>

ClipNext ==
    \/ ClipFresh
    \/ ClipFreshRaises
    \/ ClipAgain
    \/ ClipEnd
    \/ ClipRerun

SpecClip == ClipInit /\ [][ClipNext]_vars

\* orig holds the record of an iteration of the first run
FirstRunRead == run = 1 /\ (clip_total > 0 \/ cpc = "raised")

\* a cigar of a soft clip, one or more operations that are no clip, a soft clip
ClippedBothEnds(cigar) ==
    /\ Len(cigar) >= 3
    /\ cigar[1][1] = 4 /\ cigar[1][2] > 0
    /\ cigar[Len(cigar)][1] = 4 /\ cigar[Len(cigar)][2] > 0
    /\ \A i \in 2..(Len(cigar) - 1) : cigar[i][1] \notin {4, 5}

\* C6: a mapped record with a soft clip of a bases in front, operations that
\* are no clip, and a soft clip of b bases at the end keeps exactly those
\* operations, loses the first a and the last b symbols of sequence and
\* quality, and gets ZA = a, ZB = b, ZC = (a + b) / L appended.
C6_ClipBothEnds ==
    (FirstRunRead /\ ~is_unmapped(orig) /\ ClippedBothEnds(orig.cigar)) =>
        LET n == Len(orig.cigar)
            a == orig.cigar[1][2]
            b == orig.cigar[n][2]
            L == Len(orig.seq)
        IN  /\ cpc # "raised"
            /\ changed
            /\ clip_read.cigar = SubSeq(orig.cigar, 2, n - 1)
            /\ Len(clip_read.seq) = L - a - b
            /\ Len(clip_read.qual) = L - a - b
            /\ \A i \in 1..(L - a - b) :
                  /\ clip_read.seq[i] = orig.seq[a + i]
                  /\ clip_read.qual[i] = orig.qual[a + i]
            /\ clip_read.tags =
                  orig.tags \o << <<"ZA", a>>, <<"ZB", b>>, <<"ZC", <<a + b, L>> >> >>

\* C6's case: 2S 1M 1S over a sequence of four bases
C6_Witness ==
    /\ FirstRunRead
    /\ orig.flag = 0
    /\ orig.cigar = << <<4, 2>>, <<0, 1>>, <<4, 1>> >>
    /\ clip_read.seq = <<"G">>
    /\ clip_read.qual = <<"?">>
    /\ clip_read.cigar = << <<0, 1>> >>

\* the second run has handled the record the first run wrote last
SecondRunRead == run = 2 /\ clip_total > 0

\* C7: bam_removeclipping run on a record it wrote leaves the record as it
\* is: it is not changed, nothing is appended to its tags, and it is not
\* counted as altered.
C7_Idempotent ==
    /\ (run = 2 /\ cpc = "loop" /\ clip_total = 0) => ~RemoveClipping(clip_read).raises
    /\ cpc = "raised" => run = 1
    /\ SecondRunRead =>
          /\ clip_read = orig
          /\ ~changed
          /\ clip_count = 0

\* C7's case: the second run has handled a record that the first run had
\* stripped of a hard clip and a soft clip
C7_Witness ==
    /\ SecondRunRead
    /\ orig.cigar = << <<0, 1>> >>
    /\ orig.tags = << <<"NM", 1>>, <<"ZA", 2>>, <<"ZC", <<2, 3>> >> >>

\* the number of bases the soft clips of a cigar stand for
RECURSIVE SoftLength(_, _)
SoftLength(cigar, i) ==
    IF i > Len(cigar) THEN 0
    ELSE (IF cigar[i][1] = 4 THEN cigar[i][2] ELSE 0) + SoftLength(cigar, i + 1)

\* clip_5 + clip_3 of the last iteration, as line 66 put it into the ZC tag
ClippedBases == clip_read.tags[Len(clip_read.tags)][2][1]

\* C13: a mapped record whose sequence is as long as its M, I and S
\* operations say, with any number of S and H operations anywhere, is
\* normalized so that clip_5 + clip_3 is the total length of the S operations
\* dropped and the sequence and the quality string are as long as the M and
\* I operations kept.
C13_ClipLengths ==
    (FirstRunRead /\ cpc # "raised" /\ ~is_unmapped(orig)
        /\ Len(orig.seq) = QueryLength(orig.cigar, 1)) =>
        /\ changed => ClippedBases = SoftLength(orig.cigar, 1)
        /\ ~changed => SoftLength(orig.cigar, 1) = 0
        /\ Len(clip_read.seq) = QueryLength(clip_read.cigar, 1)
        /\ Len(clip_read.qual) = QueryLength(clip_read.cigar, 1)

(***************************************************************************)
(* RegionTagger, bam_stats.py:189-256                                      *)
(***************************************************************************)
\* Python's "if x" for None or a number
Truthy(x) == x # <<>> /\ x[1] # 0

\* the loop over zip(exon_starts, exon_ends) of one transcript (lines
\* 209-214), from exon i on; idx holds the exon and the intron ranges
RECURSIVE ExonLoop(_, _, _, _, _)
ExonLoop(gene, transcript, i, last_end, idx) ==
    IF i > Len(transcript.exon_starts) \/ i > Len(transcript.exon_ends)
    THEN idx
    ELSE LET start == transcript.exon_starts[i]
             end   == transcript.exon_ends[i]
         IN  ExonLoop(gene, transcript, i + 1, <<end>>,
                 [exons   |-> add_range(idx.exons, gene.chrom, gene.strand, start, end),
                  introns |-> IF Truthy(last_end)
                              THEN add_range(idx.introns, gene.chrom, gene.strand,
                                             last_end[1], start)
                              ELSE idx.introns])

RECURSIVE TranscriptLoop(_, _, _)
TranscriptLoop(gene, j, idx) ==
    IF j > Len(gene.transcripts) THEN idx
    ELSE TranscriptLoop(gene, j + 1, ExonLoop(gene, gene.transcripts[j], 1, <<>>, idx))

\* the loop over refiso.genes (lines 200-214), from gene g on
RECURSIVE GeneLoop(_, _, _, _)
GeneLoop(genes, chroms, g, idx) ==
    IF g > Len(genes) THEN idx
    ELSE LET gene == genes[g]
         IN  IF \A i \in 1..Len(chroms) : chroms[i] # gene.chrom
             THEN GeneLoop(genes, chroms, g + 1, idx)
             ELSE LET prom == IF gene.strand = "+"
                              THEN add_range(idx.promoters, gene.chrom, gene.strand,
                                             gene.tx_start - 2000, gene.tx_start)
                              ELSE add_range(idx.promoters, gene.chrom, gene.strand,
                                             gene.tx_end, gene.tx_end + 2000)
                      ex   == TranscriptLoop(gene, 1,
                                  [exons |-> idx.exons, introns |-> idx.introns])
                  IN  GeneLoop(genes, chroms, g + 1,
                          [exons |-> ex.exons, introns |-> ex.introns, promoters |-> prom])

Categories == {"exon", "intron", "promoter", "exon-rev", "intron-rev", "promoter-rev",
               "junction", "intergenic", "mitochondrial"}

\* RegionTagger.__init__ on the genes the RefIso file holds
RegionTagger(genes, chroms) ==
    LET idx == GeneLoop(genes, chroms, 1,
                   [exons |-> EmptyDict, introns |-> EmptyDict, promoters |-> EmptyDict])
    IN  [regions |-> << [name |-> "exon", ranges |-> idx.exons],
                        [name |-> "intron", ranges |-> idx.introns],
                        [name |-> "promoter", ranges |-> idx.promoters] >>,
         counts  |-> [c \in Categories |-> 0]]

\* the loop over self.regions (lines 247-250), from region i on
RECURSIVE RegionLoop(_, _, _, _, _)
RegionLoop(regions, i, chrom, strand, pos) ==
    IF i > Len(regions) THEN None
    ELSE LET tag == get_tag(regions[i].ranges, regions[i].name, chrom, strand, pos, FALSE)
         IN  IF tag # None THEN tag ELSE RegionLoop(regions, i + 1, chrom, strand, pos)

\* the tag with the skip operation looked at before the chromosome
ReadTag_JunctionFirst(tagger, rd, chrom) ==
    LET strand == IF is_reverse(rd) THEN "-" ELSE "+"
        tag1 == IF \E i \in 1..Len(rd.cigar) : rd.cigar[i][1] = 3
                THEN "junction" ELSE None
        tag2 == IF tag1 = None
                THEN IF chrom = "chrM" THEN "mitochondrial" ELSE None
                ELSE tag1
        tag3 == IF tag2 = None
                THEN RegionLoop(tagger.regions, 1, chrom, strand, rd.pos)
                ELSE tag2
    IN  IF tag3 = None THEN "intergenic" ELSE tag3

\* the tag add_read settles on for a mapped record (lines 234-253)
ReadTag(tagger, rd, chrom) ==
    LET strand == IF is_reverse(rd) THEN "-" ELSE "+"
        tag1 == IF chrom = "chrM" THEN "mitochondrial" ELSE None
        tag2 == IF tag1 = None
                THEN IF \E i \in 1..Len(rd.cigar) : rd.cigar[i][1] = 3
                     THEN "junction" ELSE None
                ELSE tag1
        tag3 == IF tag2 = None
                THEN RegionLoop(tagger.regions, 1, chrom, strand, rd.pos)
                ELSE tag2
    IN  IF tag3 = None THEN "intergenic" ELSE tag3

\* add_read without lines 252-253: a record no index knows is not counted
add_read_NoIntergenic(tagger, rd, chrom) ==
    IF is_unmapped(rd) \/ ReadTag(tagger, rd, chrom) = "intergenic"
    THEN tagger
    ELSE [tagger EXCEPT !.counts[ReadTag(tagger, rd, chrom)] = @ + 1]

\* RegionTagger.add_read
add_read(tagger, rd, chrom) ==
    IF is_unmapped(rd)
    THEN tagger
    ELSE [tagger EXCEPT !.counts[ReadTag(tagger, rd, chrom)] = @ + 1]

(***************************************************************************)
(* The alignment file and the gene model of the statistics runs            *)
(***************************************************************************)
\* bamfile.references
References == <<"chr1", "chrM">>

\* bamfile.getrname(tid), tid counted from 0
getrname(tid) == References[tid + 1]

\* the reference names as sequences of characters, for str.split
RefChars == << <<"c", "h", "r", "1">>, <<"c", "h", "r", "M">> >>
\* the delim arguments of the runs: none, and a separator that cuts both
\* reference names down to one prefix
Delims == { None, "r" }

\* the key of refs for a reference (lines 295-298, 335-338)
RefKey(d, tid) ==
    IF d # None THEN Str(Split(RefChars[tid + 1], d)[1]) ELSE getrname(tid)

\* a gene of the plus strand with two exons, a gene of the minus strand in
\* its intron, and a gene on a reference the alignment file does not have
GeneA == [chrom |-> "chr1", strand |-> "+", tx_start |-> 2000, tx_end |-> 5000,
          transcripts |-> << [exon_starts |-> <<2000, 4000>>,
                              exon_ends   |-> <<3000, 5000>>] >>]
GeneB == [chrom |-> "chr1", strand |-> "-", tx_start |-> 3500, tx_end |-> 3600,
          transcripts |-> << [exon_starts |-> <<3500>>, exon_ends |-> <<3600>>] >>]
GeneX == [chrom |-> "chr9", strand |-> "+", tx_start |-> 2000, tx_end |-> 7000,
          transcripts |-> << [exon_starts |-> <<2000>>, exon_ends |-> <<7000>>] >>]
GeneModels == { <<GeneA, GeneB, GeneX>>, <<GeneB>>, <<>> }

(***************************************************************************)
(* SpecTagger: one RegionTagger, any sequence of add_read calls            *)
(***************************************************************************)
MaxCalls == 3
TaggerFlags == {0, 4, 16, 20}
\* promoter of A, exon of A, intron of A and exon of B, exon of A and
\* promoter of B, promoter of B alone, no gene
TaggerPositions == {1000, 2500, 3550, 4500, 5500, 8000}
TaggerCigars == { << <<0, 2>> >>, << <<0, 1>>, <<3, 1>>, <<0, 1>> >> }

TaggerRead(flag, tid, pos, cigar) ==
    [qname |-> "q1", flag |-> flag, rname |-> tid, pos |-> pos, mapq |-> 30,
     cigar |-> cigar, seq |-> <<"A", "C">>, qual |-> <<"I", "I">>,
     tags |-> << <<"NM", 0>> >>]

TaggerReads ==
    { TaggerRead(f, t, p, c) :
        f \in TaggerFlags, t \in {0, 1}, p \in TaggerPositions, c \in TaggerCigars }

TaggerInit ==
    /\ \E genes \in GeneModels : regiontagger = << RegionTagger(genes, References) >>
    /\ read = <<>>
    /\ calls = 0
    /\ mapped_calls = 0
    /\ RangeUnused /\ BinUnused /\ ClipUnused /\ StatsUnused /\ StreamUnused /\ RegionUnused

\* regiontagger.add_read(read, bamfile.getrname(read.rname))
TaggerAddRead(rd) ==
    /\ calls < MaxCalls
    /\ regiontagger' = << add_read(regiontagger[1], rd, getrname(rd.rname)) >>
    /\ read' = rd
    /\ calls' = calls + 1
    /\ mapped_calls' = IF is_unmapped(rd) THEN mapped_calls ELSE mapped_calls + 1
    /\ UNCHANGED <<rangeVars, binVars, clipVars, statsVars, streamVars, regionVars>>

TaggerNext == \E rd \in TaggerReads : TaggerAddRead(rd)

SpecTagger == TaggerInit /\ [][TaggerNext]_vars

RECURSIVE SumCounts(_, _)
SumCounts(counts, cs) ==
    IF cs = {} THEN 0
    ELSE LET c == CHOOSE x \in cs : TRUE
         IN  counts[c] + SumCounts(counts, cs \ {c})

\* this step is an add_read call
IsAddRead == calls' = calls + 1

\* C2: an add_read call on a mapped record adds 1 to exactly one of the nine
\* counters and leaves the other eight alone, a call on an unmapped record
\* leaves all nine alone, and the counters always sum to the number of
\* mapped records passed so far.
C2_OneCounterPerRead ==
    /\ [](/\ DOMAIN regiontagger[1].counts = Categories
          /\ SumCounts(regiontagger[1].counts, Categories) = mapped_calls)
    /\ [][IsAddRead =>
            LET old == regiontagger[1].counts
                new == regiontagger'[1].counts
            IN  IF is_unmapped(read')
                THEN new = old
                ELSE \E c \in Categories :
                        /\ new[c] = old[c] + 1
                        /\ \A d \in Categories \ {c} : new[d] = old[d]]_vars

\* C2's case: a mapped and an unmapped record have been passed, one counter is 1
C2_Witness ==
    /\ calls = 2
    /\ mapped_calls = 1
    /\ is_unmapped(read)
    /\ regiontagger[1].counts["exon"] = 1

\* the answer of one of the three indices for a record
IndexAnswer(i, rd) ==
    get_tag(regiontagger[1].regions[i].ranges, regiontagger[1].regions[i].name,
            getrname(rd.rname), IF is_reverse(rd) THEN "-" ELSE "+", rd.pos, FALSE)

\* the category C3 gives a mapped record
PriorityCategory(rd) ==
    IF getrname(rd.rname) = "chrM" THEN "mitochondrial"
    ELSE IF \E i \in 1..Len(rd.cigar) : rd.cigar[i][1] = 3 THEN "junction"
    ELSE IF IndexAnswer(1, rd) # None THEN IndexAnswer(1, rd)
    ELSE IF IndexAnswer(2, rd) # None THEN IndexAnswer(2, rd)
    ELSE IF IndexAnswer(3, rd) # None THEN IndexAnswer(3, rd)
    ELSE "intergenic"

\* C3: add_read counts a mapped record under the first that applies of:
\* mitochondrial for chrM, junction for a skip operation, the answer of the
\* exon index, of the intron index, of the promoter index at the start
\* position ("-rev" answers included), intergenic.
C3_Priority ==
    /\ [](/\ regiontagger[1].regions[1].name = "exon"
          /\ regiontagger[1].regions[2].name = "intron"
          /\ regiontagger[1].regions[3].name = "promoter")
    /\ [][(IsAddRead /\ ~is_unmapped(read')) =>
            regiontagger'[1].counts[PriorityCategory(read')]
                = regiontagger[1].counts[PriorityCategory(read')] + 1]_vars

\* C3's case: a plus-strand record in the intron of A and the exon of B has
\* been counted as exon-rev, none as intron
C3_Witness ==
    /\ calls = 1
    /\ read.pos = 3550 /\ read.flag = 0 /\ read.rname = 0
    /\ \A i \in 1..Len(read.cigar) : read.cigar[i][1] # 3
    /\ IndexAnswer(1, read) = "exon-rev"
    /\ IndexAnswer(2, read) = "intron"
    /\ regiontagger[1].counts["exon-rev"] = 1
    /\ regiontagger[1].counts["intron"] = 0

(***************************************************************************)
(* bam_stats, bam_stats.py:259-414, run on the whole file (no region)      *)
(***************************************************************************)
\* the keys of flag_descriptions (lines 64-76)
FlagBits == {1, 2, 4, 8, 16, 32, 64, 128, 256, 512, 1024}

\* the inner loop of the flag report (lines 368-371) over the flags in fs
RECURSIVE FlagCount(_, _, _)
FlagCount(fc, fs, flag) ==
    IF fs = {} THEN 0
    ELSE LET f == CHOOSE x \in fs : TRUE
         IN  (IF BitAnd(f, flag) > 0 THEN fc[f] ELSE 0) + FlagCount(fc, fs \ {f}, flag)

\* the rows of the flag report (lines 359-374): (flag, count), by flag
RECURSIVE FlagRowsOf(_, _)
FlagRowsOf(fc, tmp) ==
    IF tmp = <<>> THEN <<>>
    ELSE LET cnt == FlagCount(fc, DOMAIN fc, tmp[1])
         IN  (IF cnt > 0 THEN << <<tmp[1], cnt>> >> ELSE <<>>) \o FlagRowsOf(fc, Tail(tmp))

FlagRows(fc) ==
    FlagRowsOf(fc, Sort(Ascending({flag \in FlagBits : flag \in DOMAIN fc})))

\* "for val, count in tagbin" run to the end (lines 385-388): the object
\* after it and the rows (val, count, acc)
RECURSIVE Drain(_, _, _)
Drain(fb, rows, acc) ==
    LET r == FeatureBin_next(fb)
    IN  IF r.result = <<>>
        THEN [self |-> r.self, rows |-> rows]
        ELSE Drain(r.self, Append(rows, <<r.result[1], r.result[2], acc + r.result[2]>>),
                   acc + r.result[2])

\* the loop over tagbins of the report (lines 379-390), from tagbin i on:
\* the sections printed, the tagbins after it, and whether tagbin.mean
\* raised ZeroDivisionError
RECURSIVE TagSections(_, _, _)
TagSections(tbs, i, sections) ==
    IF i > Len(tbs) THEN [out |-> sections, tagbins |-> tbs, raises |-> FALSE]
    ELSE IF FeatureBin_mean(tbs[i])[2] = 0
         THEN [out |-> sections, tagbins |-> tbs, raises |-> TRUE]
         ELSE LET d == Drain(FeatureBin_iter(tbs[i]), <<>>, 0)
              IN  TagSections([tbs EXCEPT ![i] = d.self], i + 1,
                      Append(sections,
                             <<"Tag", tbs[i].tag, FeatureBin_mean(tbs[i]),
                               FeatureBin_max(tbs[i]), d.rows>>))

\* lines 351-412: what is printed, the tagbins afterwards, whether it raised
ReportOf(tot, mp, unmp, fc, rf, tagger, tbs) ==
    LET head == << <<"Reads", tot>>, <<"Mapped", mp>>, <<"Unmapped", unmp>> >>
    IN  IF tot > 0
        THEN LET t == TagSections(tbs, 1, Append(head, <<"Flag distribution", FlagRows(fc)>>))
             IN  IF t.raises THEN t
                 ELSE [out |-> t.out \o << <<"Reference distribution", rf>> >>
                                 \o (IF tagger # <<>>
                                     THEN << <<"Mapping regions", tagger[1].counts>> >>
                                     ELSE <<>>),
                       tagbins |-> t.tagbins,
                       raises |-> FALSE]
        ELSE [out |-> head, tagbins |-> tbs, raises |-> FALSE]

\* the tagbins of the tags argument (lines 290-292)
RECURSIVE MakeTagbins(_)
MakeTagbins(tags) ==
    IF tags = <<>> THEN <<>> ELSE <<FeatureBin(tags[1])>> \o MakeTagbins(Tail(tags))

MaxReads == 3
QNames == {"q1", "q2", "q3"}
\* the alignments of the file: flag, tid, pos, cigar, tags
\*   paired, in the exon of A           unmapped mate
\*   reverse, exon of A / promoter of B spliced, in the intron of A
\*   secondary on chrM, no NM tag       between the genes
Alignments ==
    { <<1, 0, 2500, << <<0, 2>> >>, << <<"NM", 1>> >> >>,
      <<5, -1, -1, <<>>, <<>> >>,
      <<16, 0, 4500, << <<0, 2>> >>, << <<"NM", 0>> >> >>,
      <<0, 0, 3550, << <<0, 1>>, <<3, 1>>, <<0, 1>> >>, << <<"NM", 1>> >> >>,
      <<257, 1, 3550, << <<0, 2>> >>, <<>> >>,
      <<0, 0, 8000, << <<0, 2>> >>, << <<"NM", -1>> >> >> }

StatsRead(qname, a) ==
    [qname |-> qname, flag |-> a[1], rname |-> a[2], pos |-> a[3],
     mapq |-> IF a[1] = 16 THEN 0 ELSE 30,
     cigar |-> a[4], seq |-> <<"A", "C">>, qual |-> <<"I", "I">>, tags |-> a[5]]

StatsReads == { StatsRead(q, a) : q \in QNames, a \in Alignments }

\* the -model and -tags arguments of the runs
RefFiles == { <<>>, << <<GeneA, GeneB, GeneX>> >> }
TagArgs == { <<>>, << <<"M", "A", "P", "Q", ":", "-">>, <<"N", "M">> >> }

Init ==
    /\ pc = "fetch"
    /\ bamfile = "open"
    /\ \E ref_file \in RefFiles :
          regiontagger = IF ref_file # <<>>
                         THEN << RegionTagger(ref_file[1], References) >>
                         ELSE <<>>
    /\ flag_counts = EmptyDict
    /\ total = 0 /\ mapped = 0 /\ unmapped = 0
    /\ names = {}
    /\ \E tags \in TagArgs : tagbins = MakeTagbins(tags)
    /\ \E d \in Delims :
          /\ delim = d
          /\ refs = [r \in {RefKey(d, i - 1) : i \in 1..Len(References)} |-> 0]
    /\ ti = 0
    /\ read = <<>> /\ calls = 0 /\ mapped_calls = 0
    /\ report = <<>>
    /\ fetched = {} /\ counted = <<>> /\ at_interrupt = <<>>
    /\ RangeUnused /\ BinUnused /\ ClipUnused /\ StreamUnused /\ RegionUnused

others == <<rangeVars, binVars, clipVars, streamVars, regionVars>>

\* a record whose name was seen is counted like any other
FetchSeen_Counted(rd) ==
    /\ pc = "fetch"
    /\ Len(counted) < MaxReads
    /\ rd.qname \in names
    /\ read' = rd
    /\ fetched' = fetched \cup {rd.qname}
    /\ counted' = Append(counted, rd.flag)
    /\ pc' = "flag"
    /\ UNCHANGED <<bamfile, total, mapped, unmapped, names, flag_counts, refs, tagbins,
                   ti, report, at_interrupt, regiontagger, calls, mapped_calls, delim, others>>

\* read_gen() yields a record whose name was seen: line 317-319, continue
FetchSeen(rd) ==
    /\ pc = "fetch"
    /\ rd.qname \in names
    /\ read' = rd
    /\ fetched' = fetched \cup {rd.qname}
    /\ UNCHANGED <<pc, bamfile, total, mapped, unmapped, names, flag_counts, refs, tagbins,
                   ti, report, counted, at_interrupt, regiontagger, calls, mapped_calls,
                   delim, others>>

\* read_gen() yields a record whose name is new
FetchNew(rd) ==
    /\ pc = "fetch"
    /\ Len(counted) < MaxReads
    /\ rd.qname \notin names
    /\ read' = rd
    /\ fetched' = fetched \cup {rd.qname}
    /\ counted' = Append(counted, rd.flag)
    /\ pc' = "flag"
    /\ UNCHANGED <<bamfile, total, mapped, unmapped, names, flag_counts, refs, tagbins,
                   ti, report, at_interrupt, regiontagger, calls, mapped_calls, delim, others>>

\* lines 321-324
CountFlag ==
    /\ pc = "flag"
    /\ flag_counts' = [f \in (DOMAIN flag_counts) \cup {read.flag} |->
                          IF f = read.flag
                          THEN (IF f \in DOMAIN flag_counts THEN flag_counts[f] + 1 ELSE 1)
                          ELSE flag_counts[f]]
    /\ pc' = "names"
    /\ UNCHANGED <<bamfile, total, mapped, unmapped, names, refs, tagbins, ti, report,
                   fetched, counted, at_interrupt, taggerVars, delim, others>>

\* line 326
AddName ==
    /\ pc = "names"
    /\ names' = names \cup {read.qname}
    /\ pc' = "total"
    /\ UNCHANGED <<bamfile, total, mapped, unmapped, flag_counts, refs, tagbins, ti, report,
                   fetched, counted, at_interrupt, taggerVars, delim, others>>

\* line 327
CountTotal ==
    /\ pc = "total"
    /\ total' = total + 1
    /\ pc' = "check"
    /\ UNCHANGED <<bamfile, mapped, unmapped, names, flag_counts, refs, tagbins, ti, report,
                   fetched, counted, at_interrupt, taggerVars, delim, others>>

\* lines 328-330
CountUnmapped ==
    /\ pc = "check"
    /\ is_unmapped(read)
    /\ unmapped' = unmapped + 1
    /\ pc' = "fetch"
    /\ UNCHANGED <<bamfile, total, mapped, names, flag_counts, refs, tagbins, ti, report,
                   fetched, counted, at_interrupt, taggerVars, delim, others>>

\* lines 328, 332-333 going on at line 340: the reference is not counted
CountMapped_SkipsRefs ==
    /\ pc = "check"
    /\ ~is_unmapped(read)
    /\ mapped' = mapped + 1
    /\ pc' = "tagger"
    /\ UNCHANGED <<bamfile, total, unmapped, names, flag_counts, refs, tagbins, ti, report,
                   fetched, counted, at_interrupt, taggerVars, delim, others>>

\* lines 328, 332-333
CountMapped ==
    /\ pc = "check"
    /\ ~is_unmapped(read)
    /\ mapped' = mapped + 1
    /\ pc' = "refs"
    /\ UNCHANGED <<bamfile, total, unmapped, names, flag_counts, refs, tagbins, ti, report,
                   fetched, counted, at_interrupt, taggerVars, delim, others>>

\* lines 335-338
CountRef ==
    /\ pc = "refs"
    /\ refs' = [refs EXCEPT ![RefKey(delim, read.rname)] = @ + 1]
    /\ pc' = "tagger"
    /\ UNCHANGED <<bamfile, total, mapped, unmapped, names, flag_counts, tagbins, ti, report,
                   fetched, counted, at_interrupt, taggerVars, delim, others>>

\* lines 340-341
TagRegion ==
    /\ pc = "tagger"
    /\ IF regiontagger # <<>>
       THEN /\ regiontagger' = << add_read(regiontagger[1], read, getrname(read.rname)) >>
            /\ calls' = calls + 1
            /\ mapped_calls' = IF is_unmapped(read) THEN mapped_calls ELSE mapped_calls + 1
       ELSE UNCHANGED <<regiontagger, calls, mapped_calls>>
    /\ pc' = "tagbins"
    /\ ti' = 1
    /\ UNCHANGED <<bamfile, total, mapped, unmapped, names, flag_counts, refs, tagbins, report,
                   fetched, counted, at_interrupt, read, delim, others>>

\* line 343: the loop over tagbins is over
TagbinsDone ==
    /\ pc = "tagbins"
    /\ ti > Len(tagbins)
    /\ pc' = "fetch"
    /\ ti' = 0
    /\ UNCHANGED <<bamfile, total, mapped, unmapped, names, flag_counts, refs, tagbins, report,
                   fetched, counted, at_interrupt, taggerVars, delim, others>>

\* line 344: tagbin.add(read)
TagbinAdd ==
    /\ pc = "tagbins"
    /\ ti <= Len(tagbins)
    /\ FeatureBin_val(tagbins[ti], read) # <<>>
    /\ tagbins' = [tagbins EXCEPT ![ti] = FeatureBin_add(tagbins[ti], read)]
    /\ ti' = ti + 1
    /\ UNCHANGED <<pc, bamfile, total, mapped, unmapped, names, flag_counts, refs, report,
                   fetched, counted, at_interrupt, taggerVars, delim, others>>

\* line 344: read.opt raises KeyError and bam_stats is left
TagbinRaises ==
    /\ pc = "tagbins"
    /\ ti <= Len(tagbins)
    /\ FeatureBin_val(tagbins[ti], read) = <<>>
    /\ pc' = "raised"
    /\ UNCHANGED <<bamfile, total, mapped, unmapped, names, flag_counts, refs, tagbins, ti,
                   report, fetched, counted, at_interrupt, taggerVars, delim, others>>

InTry == pc \in {"fetch", "flag", "names", "total", "check", "refs", "tagger", "tagbins"}

\* KeyboardInterrupt caught inside the for loop: the record in progress is
\* dropped and the loop goes on
Interrupt_Resumes ==
    /\ InTry
    /\ pc' = "fetch"
    /\ at_interrupt' = << [total |-> total, mapped |-> mapped, unmapped |-> unmapped,
                           names |-> names, flag_counts |-> flag_counts, refs |-> refs,
                           regiontagger |-> regiontagger, tagbins |-> tagbins,
                           fetched |-> fetched, counted |-> counted] >>
    /\ UNCHANGED <<bamfile, total, mapped, unmapped, names, flag_counts, refs, tagbins, ti,
                   report, fetched, counted, taggerVars, delim, others>>

\* KeyboardInterrupt is raised inside the try block: lines 346-349
Interrupt ==
    /\ InTry
    /\ pc' = "report"
    /\ at_interrupt' = << [total |-> total, mapped |-> mapped, unmapped |-> unmapped,
                           names |-> names, flag_counts |-> flag_counts, refs |-> refs,
                           regiontagger |-> regiontagger, tagbins |-> tagbins,
                           fetched |-> fetched, counted |-> counted] >>
    /\ UNCHANGED <<bamfile, total, mapped, unmapped, names, flag_counts, refs, tagbins, ti,
                   report, fetched, counted, taggerVars, delim, others>>

\* read_gen() is exhausted: the for loop ends, line 349
EndOfFile ==
    /\ pc = "fetch"
    /\ pc' = "report"
    /\ UNCHANGED <<bamfile, total, mapped, unmapped, names, flag_counts, refs, tagbins, ti,
                   report, fetched, counted, at_interrupt, taggerVars, delim, others>>

\* lines 351-414 run to the end
Report ==
    /\ pc = "report"
    /\ LET r == ReportOf(total, mapped, unmapped, flag_counts, refs, regiontagger, tagbins)
       IN  /\ ~r.raises
           /\ report' = r.out
           /\ tagbins' = r.tagbins
    /\ bamfile' = "closed"
    /\ pc' = "done"
    /\ UNCHANGED <<total, mapped, unmapped, names, flag_counts, refs, ti,
                   fetched, counted, at_interrupt, taggerVars, delim, others>>

\* tagbin.mean raises ZeroDivisionError at line 380 and bam_stats is left
ReportRaises ==
    /\ pc = "report"
    /\ LET r == ReportOf(total, mapped, unmapped, flag_counts, refs, regiontagger, tagbins)
       IN  /\ r.raises
           /\ report' = r.out
           /\ tagbins' = r.tagbins
    /\ pc' = "raised"
    /\ UNCHANGED <<bamfile, total, mapped, unmapped, names, flag_counts, refs, ti,
                   fetched, counted, at_interrupt, taggerVars, delim, others>>

Next ==
    \/ \E rd \in StatsReads : FetchSeen(rd)
    \/ \E rd \in StatsReads : FetchNew(rd)
    \/ CountFlag
    \/ AddName
    \/ CountTotal
    \/ CountUnmapped
    \/ CountMapped
    \/ CountRef
    \/ TagRegion
    \/ TagbinsDone
    \/ TagbinAdd
    \/ TagbinRaises
    \/ Interrupt
    \/ EndOfFile
    \/ Report
    \/ ReportRaises

Spec == Init /\ [][Next]_vars

\* C4: a record whose name was seen before changes no aggregate and leaves
\* the loop at its top; between records, and after a pass that read the
\* whole file, total is the number of distinct names consumed.
C4_Dedup ==
    /\ []((pc = "fetch" \/ (pc \in {"report", "done"} /\ at_interrupt = <<>>))
            => (total = Cardinality(fetched) /\ names = fetched))
    /\ [][(pc = "fetch" /\ pc' # "report" /\ read'.qname \in names) =>
            /\ pc' = "fetch"
            /\ UNCHANGED <<total, mapped, unmapped, names, flag_counts, refs,
                           regiontagger, tagbins, counted>>]_vars

\* C4's case: a primary alignment was counted, then a secondary alignment
\* of the same name was read and skipped
C4_Witness ==
    /\ pc = "fetch"
    /\ counted = <<1>>
    /\ read.flag = 257
    /\ read.qname \in names
    /\ total = 1

\* the sections of the report with that title
SectionsNamed(title) == {i \in 1..Len(report) : report[i][1] = title}
SectionOf(title) == report[CHOOSE i \in SectionsNamed(title) : TRUE]

\* the number of counted records whose flag has bit b set
CountedWithBit(b) == Cardinality({i \in 1..Len(counted) : (counted[i] \div b) % 2 = 1})

\* C5: after a pass over the whole file the flag section has, for every
\* described bit that a counted record has set, a row with the number of
\* counted records that have it set.
C5_FlagRows ==
    (pc = "done" /\ at_interrupt = <<>> /\ total > 0) =>
        \A b \in FlagBits :
            CountedWithBit(b) > 0 =>
                \E k \in 1..Len(SectionOf("Flag distribution")[2]) :
                    SectionOf("Flag distribution")[2][k] = <<b, CountedWithBit(b)>>

\* the sum of the counts and of value * count of a distribution
mapped_sum(fb) == MeanLoop(fb.bins, DOMAIN fb.bins)[2]
value_sum(fb) == MeanLoop(fb.bins, DOMAIN fb.bins)[1]

\* the pairs (value, count) of the rows of a tag section
RowPairs(rows) == { <<rows[k][1], rows[k][2]>> : k \in 1..Len(rows) }

\* C10: once KeyboardInterrupt has come, no further record is read, the
\* function is in or past its report, every aggregate has the value it had
\* at the interrupt, and every section printed shows that value.
C10_InterruptReports ==
    at_interrupt # <<>> =>
        LET snap == at_interrupt[1]
        IN  /\ pc \in {"report", "done", "raised"}
            /\ fetched = snap.fetched
            /\ counted = snap.counted
            /\ total = snap.total /\ mapped = snap.mapped /\ unmapped = snap.unmapped
            /\ names = snap.names
            /\ flag_counts = snap.flag_counts
            /\ refs = snap.refs
            /\ regiontagger = snap.regiontagger
            /\ Len(tagbins) = Len(snap.tagbins)
            /\ \A i \in 1..Len(tagbins) :
                  /\ tagbins[i].bins = snap.tagbins[i].bins
                  /\ tagbins[i].max = snap.tagbins[i].max
            /\ pc = "report" => report = <<>>
            /\ pc \in {"done", "raised"} =>
                  /\ SectionOf("Reads")[2] = snap.total
                  /\ SectionOf("Mapped")[2] = snap.mapped
                  /\ SectionOf("Unmapped")[2] = snap.unmapped
                  /\ snap.total > 0 =>
                        SectionOf("Flag distribution")[2] = FlagRows(snap.flag_counts)
                  /\ \A i \in 1..Len(snap.tagbins) :
                        Len(report) >= 4 + i =>
                            /\ report[4 + i][1] = "Tag"
                            /\ report[4 + i][2] = snap.tagbins[i].tag
                            /\ report[4 + i][3][1] * mapped_sum(snap.tagbins[i])
                                  = report[4 + i][3][2] * value_sum(snap.tagbins[i])
                            /\ report[4 + i][4] = snap.tagbins[i].max
                            /\ RowPairs(report[4 + i][5])
                                  = { <<v, snap.tagbins[i].bins[v]>> :
                                        v \in DOMAIN snap.tagbins[i].bins }
            /\ (pc = "done" /\ snap.total > 0) =>
                  /\ SectionOf("Reference distribution")[2] = snap.refs
                  /\ snap.regiontagger # <<>> =>
                        SectionOf("Mapping regions")[2] = snap.regiontagger[1].counts

\* C10's case: the interrupt came in the middle of the second record, after
\* its name was stored and before it was counted, and the report is out
C10_Witness ==
    /\ at_interrupt # <<>>
    /\ pc = "done"
    /\ Cardinality(names) = 2
    /\ total = 1
    /\ SectionOf("Reads")[2] = 1
    /\ SectionsNamed("Reference distribution") # {}

(***************************************************************************)
(* SpecRange: one RangeMatch named "exon", any sequence of add_range calls *)
(***************************************************************************)
MaxRanges == 2
RangeName == "exon"
RangeChroms == {"chr1", "chrM"}
Strands == {"+", "-"}
\* interval ends on both sides of the bucket borders, a negative start included
RangeCoords == {-1, 99999, 100000}
\* query points: the ends, their neighbours, and a bucket no interval reaches
QueryCoords == {-100001, -2, -1, 0, 99998, 99999, 100000, 100001, 200000}

RangeInit ==
    /\ ranges = EmptyDict
    /\ inserted = <<>>
    /\ BinUnused /\ ClipUnused /\ TaggerUnused /\ StatsUnused /\ StreamUnused /\ RegionUnused

AddRange(chrom, strand, start, end) ==
    /\ Len(inserted) < MaxRanges
    /\ start <= end
    /\ ranges' = add_range(ranges, chrom, strand, start, end)
    /\ inserted' = Append(inserted, <<chrom, strand, start, end>>)
    /\ UNCHANGED <<binVars, clipVars, taggerVars, statsVars, streamVars, regionVars>>

RangeNext ==
    \E chrom \in RangeChroms, strand \in Strands, start \in RangeCoords, end \in RangeCoords :
        AddRange(chrom, strand, start, end)

SpecRange == RangeInit /\ [][RangeNext]_vars

\* an inserted interval of chrom contains pos
Contains(iv, chrom, pos) == iv[1] = chrom /\ iv[3] <= pos /\ pos <= iv[4]

\* C1: a point inside an inserted interval, queried with that interval's
\* strand, gets the index's name; a point inside no inserted interval of the
\* chromosome gets None on either strand.
C1_PointQuery ==
    \A chrom \in RangeChroms, pos \in QueryCoords :
        /\ \A i \in 1..Len(inserted) :
              Contains(inserted[i], chrom, pos)
                  => get_tag(ranges, RangeName, chrom, inserted[i][2], pos, FALSE) = RangeName
        /\ (\A i \in 1..Len(inserted) : ~Contains(inserted[i], chrom, pos))
              => \A strand \in Strands :
                    get_tag(ranges, RangeName, chrom, strand, pos, FALSE) = None

\* C1's case: an interval over two buckets is shadowed by a later interval of
\* the other strand, and a point outside both lies in a populated bucket.
C1_Witness ==
    /\ Len(inserted) >= 2
    /\ inserted[1] = <<"chr1", "+", -1, 100000>>
    /\ inserted[2] = <<"chr1", "-", 99999, 100000>>
    /\ get_tag(ranges, RangeName, "chr1", "+", 99999, FALSE) = RangeName
    /\ get_tag(ranges, RangeName, "chr1", "+", 100001, FALSE) = None

(***************************************************************************)
(* The region argument of bam_stats, bam_stats.py:273-282                  *)
(***************************************************************************)
Digits == <<"0", "1", "2", "3", "4", "5", "6", "7", "8", "9">>

\* the decimal numeral of n >= 0, as the caller types it
RECURSIVE StrOfInt(_)
StrOfInt(n) ==
    IF n < 10 THEN <<Digits[n + 1]>>
    ELSE Append(StrOfInt(n \div 10), Digits[(n % 10) + 1])

\* int(x) for x of digits and other characters without sign or blanks:
\* <<the number>>, or <<>> for ValueError
RECURSIVE IntLoop(_, _, _)
IntLoop(cs, i, acc) ==
    IF i > Len(cs) THEN <<acc>>
    ELSE IF \A d \in 1..10 : Digits[d] # cs[i] THEN <<>>
    ELSE IntLoop(cs, i + 1, 10 * acc + (CHOOSE d \in 1..10 : Digits[d] = cs[i]) - 1)

int(cs) == IF cs = <<>> THEN <<>> ELSE IntLoop(cs, 1, 0)

\* lines 273-282 with "start = int(startend)" and "start, end = ..." left
\* as typed: no step back to the 0-based start
RegionQuery_OneBased(arg) ==
    LET parts == Split(arg, ":")
    IN  IF Len(parts) # 2
        THEN [raises |-> TRUE, ref |-> None, start |-> <<>>, end |-> <<>>]
        ELSE LET startend == parts[2]
                 nums == Split(startend, "-")
             IN  IF \E i \in 1..Len(startend) : startend[i] = "-"
                 THEN IF Len(nums) # 2 \/ \E k \in 1..Len(nums) : int(nums[k]) = <<>>
                      THEN [raises |-> TRUE, ref |-> None, start |-> <<>>, end |-> <<>>]
                      ELSE [raises |-> FALSE, ref |-> Str(parts[1]),
                            start |-> <<int(nums[1])[1]>>, end |-> <<int(nums[2])[1]>>]
                 ELSE IF int(startend) = <<>>
                      THEN [raises |-> TRUE, ref |-> None, start |-> <<>>, end |-> <<>>]
                      ELSE [raises |-> FALSE, ref |-> Str(parts[1]),
                            start |-> <<int(startend)[1]>>, end |-> <<int(startend)[1]>>]

\* lines 273-282 for a region argument that is not empty: ref, start and end
\* as bamfile.fetch gets them, or raises for the ValueError of a tuple that
\* does not unpack or of int()
RegionQuery(arg) ==
    LET parts == Split(arg, ":")
    IN  IF Len(parts) # 2
        THEN [raises |-> TRUE, ref |-> None, start |-> <<>>, end |-> <<>>]
        ELSE LET startend == parts[2]
                 nums == Split(startend, "-")
             IN  IF \E i \in 1..Len(startend) : startend[i] = "-"
                 THEN IF Len(nums) # 2 \/ \E k \in 1..Len(nums) : int(nums[k]) = <<>>
                      THEN [raises |-> TRUE, ref |-> None, start |-> <<>>, end |-> <<>>]
                      ELSE [raises |-> FALSE, ref |-> Str(parts[1]),
                            start |-> <<int(nums[1])[1] - 1>>, end |-> <<int(nums[2])[1]>>]
                 ELSE IF int(startend) = <<>>
                      THEN [raises |-> TRUE, ref |-> None, start |-> <<>>, end |-> <<>>]
                      ELSE [raises |-> FALSE, ref |-> Str(parts[1]),
                            start |-> <<int(startend)[1] - 1>>, end |-> <<int(startend)[1]>>]

(***************************************************************************)
(* SpecRegion: bam_stats is called with any region argument                *)
(***************************************************************************)
RegionChroms == { <<"c", "h", "r", "1">>, <<"c", "h", "r", "M">>, <<"2">> }
\* 1-based coordinates of one to four digits, with and without zeros
RegionCoords == {1, 9, 10, 100, 200, 1000}
\* arguments that are no region: no colon, two colons, no number, an open
\* end, three numbers, a negative start
Malformed ==
    { <<"c", "h", "r", "1">>,
      <<"c", ":", "1", ":", "2">>,
      <<"c", "h", "r", "1", ":">>,
      <<"c", "h", "r", "1", ":", "5", "-">>,
      <<"c", "h", "r", "1", ":", "5", "-", "7", "-", "9">>,
      <<"c", "h", "r", "1", ":", "-", "5">>,
      <<"c", "h", "r", "1", ":", "x">> }

\* the argument a caller types for a chromosome, a start and <<>> or <<an end>>
MakeRegion(chrom, s, e) ==
    chrom \o <<":">> \o StrOfInt(s)
          \o (IF e = <<>> THEN <<>> ELSE <<"-">> \o StrOfInt(e[1]))

RegionInit ==
    /\ rpc = "args"
    /\ \/ \E chrom \in RegionChroms, s \in RegionCoords,
             e \in {<<>>} \cup { <<x>> : x \in RegionCoords } :
                /\ region_src = [chrom |-> chrom, s |-> s, e |-> e]
                /\ region = MakeRegion(chrom, s, e)
       \/ \E arg \in Malformed :
                /\ region_src = <<>>
                /\ region = arg
    /\ ref = None /\ region_start = <<>> /\ region_end = <<>>
    /\ RangeUnused /\ BinUnused /\ ClipUnused /\ TaggerUnused /\ StatsUnused /\ StreamUnused

\* lines 273-282 run to the end
ParseRegion ==
    /\ rpc = "args"
    /\ LET q == RegionQuery(region)
       IN  /\ ~q.raises
           /\ ref' = q.ref
           /\ region_start' = q.start
           /\ region_end' = q.end
    /\ rpc' = "parsed"
    /\ UNCHANGED <<region, region_src, rangeVars, binVars, clipVars, taggerVars, statsVars,
                   streamVars>>

\* line 274, 276 or 279 raises ValueError
ParseRegionRaises ==
    /\ rpc = "args"
    /\ RegionQuery(region).raises
    /\ rpc' = "raised"
    /\ UNCHANGED <<region, region_src, ref, region_start, region_end, rangeVars, binVars,
                   clipVars, taggerVars, statsVars, streamVars>>

RegionNext ==
    \/ ParseRegion
    \/ ParseRegionRaises

SpecRegion == RegionInit /\ [][RegionNext]_vars

\* C11: the argument "chrom:s-e" is parsed to ref = chrom, start = s - 1 and
\* end = e, and the argument "chrom:s" to ref = chrom, start = s - 1 and
\* end = s; neither raises.
C11_RegionParse ==
    (region_src # <<>> /\ rpc # "args") =>
        /\ rpc = "parsed"
        /\ ref = Str(region_src.chrom)
        /\ region_start = <<region_src.s - 1>>
        /\ region_end = (IF region_src.e = <<>> THEN <<region_src.s>> ELSE region_src.e)

\* C11's case: "chr1:100-200" is parsed to chr1, 99 and 200
C11_Witness ==
    /\ rpc = "parsed"
    /\ region = <<"c", "h", "r", "1", ":", "1", "0", "0", "-", "2", "0", "0">>
    /\ ref = "chr1"
    /\ region_start = <<99>>
    /\ region_end = <<200>>

(***************************************************************************)
(* bam_stats: the report after a stopped pass, bam_stats.py:346-414        *)
(***************************************************************************)
\* the titles of the sections of a report, in the order printed
Titles(rep) == [i \in 1..Len(rep) |-> rep[i][1]]

\* C12: wherever the pass stops, by the end of the file or by an interrupt,
\* the report runs to its end without raising; if a record was counted it
\* has the counts, the flag section, one section per configured tag
\* distribution and the reference section.
C12_FullReport ==
    [][pc = "report" =>
          /\ pc' = "done"
          /\ total > 0 =>
                /\ SubSeq(Titles(report'), 1, 4)
                      = <<"Reads", "Mapped", "Unmapped", "Flag distribution">>
                /\ \A i \in 1..Len(tagbins) :
                      /\ Len(report') >= 4 + i
                      /\ report'[4 + i][1] = "Tag"
                      /\ report'[4 + i][2] = tagbins[i].tag
                /\ Len(report') > 4 + Len(tagbins)
                /\ report'[5 + Len(tagbins)][1] = "Reference distribution"]_vars

(***************************************************************************)
(* bam_stats: the aggregates between records, bam_stats.py:316-344         *)
(***************************************************************************)
\* the aggregates agree with each other
Consistent(tot, mp, unmp, nms, fc, rf, tagger, tbs) ==
    /\ tot = mp + unmp
    /\ tot = Cardinality(nms)
    /\ tot = SumCounts(fc, DOMAIN fc)
    /\ SumCounts(rf, DOMAIN rf) = mp
    /\ tagger # <<>> => SumCounts(tagger[1].counts, DOMAIN tagger[1].counts) = mp
    /\ \A i \in 1..Len(tbs) : mapped_sum(tbs[i]) = mp

\* C14: whenever the loop is between two records, total is mapped plus
\* unmapped, the number of names seen and the sum of flag_counts; the
\* counters of refs, the counters of the tagger if there is one, and the
\* counts of every tag distribution each add up to mapped.
C14_Aggregates ==
    pc = "fetch" =>
        Consistent(total, mapped, unmapped, names, flag_counts, refs, regiontagger, tagbins)

\* C14's case: two mapped records on different references and an unmapped
\* one were counted, a secondary alignment of a counted name was skipped
\* last, and a tagger, tag distributions and a delimiter are configured
C14_Witness ==
    /\ pc = "fetch"
    /\ total = 3 /\ mapped = 2 /\ unmapped = 1
    /\ read.flag = 257 /\ \A i \in 1..Len(counted) : counted[i] # 257
    /\ regiontagger # <<>> /\ regiontagger[1].counts["mitochondrial"] = 0
    /\ Len(tagbins) = 2
    /\ delim = "r" /\ refs = [k \in {"ch"} |-> 2]

(***************************************************************************)
(* The streams of both functions, bam_stats.py:260, 414 and                *)
(* removeclipping.py:21-22, 75-76                                          *)
(***************************************************************************)
\* C15: however bam_stats and bam_removeclipping are left, by their last
\* line or by an exception raised while a record is processed, the streams
\* they opened are closed.
C15_StreamsClosed ==
    /\ pc \in {"done", "raised"} => bamfile = "closed"
    /\ cpc \in {"done", "raised"} => (bam = "closed" /\ out = "closed")

(***************************************************************************)
(* bam_stats: where KeyboardInterrupt may come, bam_stats.py:315-347       *)
(***************************************************************************)
\* C16: when the report is entered after an interrupt, every record that
\* was started has been applied to all aggregates or to none: total is the
\* number of names seen, the sum of flag_counts and mapped plus unmapped,
\* and refs, the tagger's counters and every tag distribution hold every
\* mapped record counted.
C16_InterruptBetweenRecords ==
    (at_interrupt # <<>> /\ pc = "report") =>
        /\ total = Cardinality(names)
        /\ total = SumCounts(flag_counts, DOMAIN flag_counts)
        /\ total = mapped + unmapped
        /\ mapped = SumCounts(refs, DOMAIN refs)
        /\ regiontagger # <<>> =>
              mapped = SumCounts(regiontagger[1].counts, DOMAIN regiontagger[1].counts)
        /\ \A i \in 1..Len(tagbins) : mapped = mapped_sum(tagbins[i])

\* the insertions into chrom that contain pos
Hits(chrom, pos) == {i \in 1..Len(inserted) : Contains(inserted[i], chrom, pos)}

\* C17: on a point that inserted intervals contain, none of them of the
\* queried strand, get_tag answers the name with "-rev"; if any of them is of
\* the queried strand it answers the plain name, wherever the intervals of
\* the other strand sit; with ignore_strand it never answers with "-rev".
C17_Strand ==
    \A chrom \in RangeChroms, strand \in Strands, pos \in QueryCoords :
        LET on == {i \in Hits(chrom, pos) : inserted[i][2] = strand}
        IN  /\ (Hits(chrom, pos) # {} /\ on = {})
                  => get_tag(ranges, RangeName, chrom, strand, pos, FALSE) = "exon-rev"
            /\ on # {}
                  => get_tag(ranges, RangeName, chrom, strand, pos, FALSE) = RangeName
            /\ get_tag(ranges, RangeName, chrom, strand, pos, TRUE) \in {RangeName, None}
            /\ Hits(chrom, pos) # {}
                  => get_tag(ranges, RangeName, chrom, strand, pos, TRUE) = RangeName

\* C17's case: at 99999 an interval of "+" lies behind a newer one of "-" in
\* the bucket list and "+" still gets the plain name; at 100000 only the
\* interval of "-" contains the point and "+" gets "exon-rev", or the plain
\* name with ignore_strand
C17_Witness ==
    /\ Len(inserted) = 2
    /\ inserted[1] = <<"chr1", "+", -1, 99999>>
    /\ inserted[2] = <<"chr1", "-", 99999, 100000>>
    /\ ranges["chr1"][0][1] = <<99999, 100000, "-">>
    /\ get_tag(ranges, RangeName, "chr1", "+", 99999, FALSE) = RangeName
    /\ get_tag(ranges, RangeName, "chr1", "+", 100000, FALSE) = "exon-rev"
    /\ get_tag(ranges, RangeName, "chr1", "+", 100000, TRUE) = RangeName

\* the buckets looked at: those the intervals reach and one more on each side
Buckets == -2..2

\* the list of a bucket, empty if the chromosome or the bucket has none
BucketList(rs, chrom, b) ==
    IF chrom \in DOMAIN rs /\ b \in DOMAIN rs[chrom] THEN rs[chrom][b] ELSE <<>>

\* the insertions into chrom whose interval reaches bucket b
Reaching(chrom, b) ==
    {i \in 1..Len(inserted) :
        /\ inserted[i][1] = chrom
        /\ inserted[i][3] \div BUCKET_SIZE <= b
        /\ b <= inserted[i][4] \div BUCKET_SIZE}

\* the entry of a bucket list that an insertion makes
Entry(ins) == <<ins[3], ins[4], ins[2]>>

\* every interval inserted into chrom, the newest first
RECURSIVE AllOf(_, _)
AllOf(chrom, i) ==
    IF i = 0 THEN <<>>
    ELSE (IF inserted[i][1] = chrom THEN <<Entry(inserted[i])>> ELSE <<>>)
             \o AllOf(chrom, i - 1)

\* C18: the list of bucket b of a chromosome holds an inserted interval if
\* and only if floor(start / 100000) <= b <= floor(end / 100000), once per
\* insertion, so that get_tag, which scans the bucket of pos alone, answers
\* as a scan over all intervals inserted for the chromosome would.
C18_Buckets ==
    /\ \A chrom \in RangeChroms, b \in Buckets :
          LET lst == BucketList(ranges, chrom, b)
          IN  /\ Len(lst) = Cardinality(Reaching(chrom, b))
              /\ \A i \in Reaching(chrom, b) :
                    Occurrences(lst, Entry(inserted[i]))
                        = Cardinality({j \in Reaching(chrom, b) :
                                          Entry(inserted[j]) = Entry(inserted[i])})
    /\ \A chrom \in DOMAIN ranges : DOMAIN ranges[chrom] \subseteq Buckets
    /\ \A chrom \in RangeChroms, strand \in Strands, pos \in QueryCoords,
          ignore_strand \in BOOLEAN :
          get_tag(ranges, RangeName, chrom, strand, pos, ignore_strand)
              = ScanBucket(AllOf(chrom, Len(inserted)), 1, RangeName, strand, pos,
                           ignore_strand, FALSE)

\* C18's case: an interval from -1 to 100000 is in the buckets -1, 0 and 1,
\* twice in each after a second insertion of it, and a point of bucket 1 is
\* answered from that bucket
C18_Witness ==
    /\ Len(inserted) = 2
    /\ inserted[1] = <<"chr1", "-", -1, 100000>>
    /\ inserted[2] = inserted[1]
    /\ DOMAIN ranges["chr1"] = {-1, 0, 1}
    /\ \A b \in {-1, 0, 1} : ranges["chr1"][b] = << <<-1, 100000, "-">>, <<-1, 100000, "-">> >>
    /\ get_tag(ranges, RangeName, "chr1", "-", 100000, FALSE) = RangeName

\* the index after the add_range calls of cs[p[1]], cs[p[2]], ...
RECURSIVE Rebuilt(_, _, _)
Rebuilt(cs, p, n) ==
    IF n = 0 THEN EmptyDict
    ELSE add_range(Rebuilt(cs, p, n - 1), cs[p[n]][1], cs[p[n]][2], cs[p[n]][3], cs[p[n]][4])

\* the orders in which n calls can be made
Orders(n) == {p \in [1..n -> 1..n] : \A i, j \in 1..n : p[i] = p[j] => i = j}

\* C20: the add_range calls made, made in any other order, give an index
\* on which get_tag answers every query as it does on this one.
C20_OrderFree ==
    \A p \in Orders(Len(inserted)) :
        LET other == Rebuilt(inserted, p, Len(inserted))
        IN  \A chrom \in RangeChroms, strand \in Strands, pos \in QueryCoords,
               ignore_strand \in BOOLEAN :
               get_tag(other, RangeName, chrom, strand, pos, ignore_strand)
                   = get_tag(ranges, RangeName, chrom, strand, pos, ignore_strand)

\* C20's case: two intervals that overlap at 99999, the newer of "+"; made
\* in the other order the calls leave the interval of "-" in front of the
\* bucket list, and "-" gets the plain name either way
C20_Witness ==
    /\ Len(inserted) = 2
    /\ inserted[1] = <<"chr1", "-", -1, 100000>>
    /\ inserted[2] = <<"chr1", "+", 99999, 99999>>
    /\ ranges["chr1"][0][1][3] = "+"
    /\ Rebuilt(inserted, <<2, 1>>, 2)["chr1"][0][1][3] = "-"
    /\ get_tag(ranges, RangeName, "chr1", "-", 99999, FALSE) = RangeName
    /\ get_tag(Rebuilt(inserted, <<2, 1>>, 2), RangeName, "chr1", "-", 99999, FALSE) = RangeName

(***************************************************************************)
(* SpecStream: bam_removeclipping over whole input streams                 *)
(***************************************************************************)
MaxStream == 3

StreamRecord(qname, flag, cigar) == [ClipRecord(flag, cigar) EXCEPT !.qname = qname]

\* the records a stream is made of: unmapped without and with a cigar,
\* mapped without clipping, with soft clips at both ends, with a hard clip,
\* with soft and hard clip, and one of a hard clip alone that line 66 raises on
StreamRecords ==
    { StreamRecord("r1", 4, <<>>),
      StreamRecord("r2", 4, << <<4, 2>>, <<0, 1>>, <<5, 1>> >>),
      StreamRecord("r3", 0, << <<0, 1>>, <<2, 1>>, <<0, 1>> >>),
      StreamRecord("r4", 0, << <<4, 1>>, <<0, 1>>, <<4, 2>> >>),
      StreamRecord("r5", 16, << <<5, 1>>, <<0, 1>> >>),
      StreamRecord("r6", 0, << <<5, 1>>, <<4, 1>>, <<1, 1>>, <<0, 1>> >>),
      StreamRecord("r7", 0, << <<5, 1>> >>) }

StreamInit ==
    /\ cpc = "loop" /\ bam = "open" /\ out = "open"
    /\ clip_read = <<>> /\ orig = <<>> /\ changed = FALSE
    /\ clip_total = 0 /\ clip_count = 0
    /\ run = 1
    /\ consumed = <<>> /\ written = <<>>
    /\ RangeUnused /\ BinUnused /\ TaggerUnused /\ StatsUnused /\ RegionUnused

\* the next record of the stream is read, rewritten and written
StreamIteration ==
    /\ Len(consumed) < MaxStream
    /\ \E rec \in StreamRecords :
          /\ ClipIteration(rec)
          /\ consumed' = Append(consumed, rec)
    /\ written' = Append(written, clip_read')

\* the next record of the stream is read and line 66 raises on it
StreamRaises ==
    /\ Len(consumed) < MaxStream
    /\ \E rec \in StreamRecords :
          /\ ClipRaises(rec)
          /\ consumed' = Append(consumed, rec)
    /\ UNCHANGED written

StreamNext ==
    \/ StreamIteration
    \/ StreamRaises
    \/ ClipEnd

SpecStream == StreamInit /\ [][StreamNext]_vars

\* a cigar has a soft or a hard clip
HasClip(cigar) == \E i \in 1..Len(cigar) : cigar[i][1] \in {4, 5}

\* the records read so far that are mapped and have a clip
Clipped == {i \in 1..Len(consumed) : ~is_unmapped(consumed[i]) /\ HasClip(consumed[i].cigar)}

\* C19: as long as no record has raised, the output holds one record for
\* each record read, in the order read; a record that is unmapped or has no
\* clip is written as it was read; total is the number of records read and
\* count the number of mapped records read that have a clip, so count is at
\* most total after every record.
C19_Stream ==
    cpc # "raised" =>
        /\ Len(written) = Len(consumed)
        /\ \A i \in 1..Len(consumed) :
              /\ written[i].qname = consumed[i].qname
              /\ written[i].flag = consumed[i].flag
              /\ i \notin Clipped => written[i] = consumed[i]
              /\ i \in Clipped => written[i].cigar # consumed[i].cigar
        /\ clip_total = Len(consumed)
        /\ clip_count = Cardinality(Clipped)
        /\ clip_count <= clip_total

\* C19's case: a stream of a clipped mapped record, an unmapped record with
\* clips in its cigar and a mapped record without clip was written to the end
C19_Witness ==
    /\ cpc = "done"
    /\ Len(consumed) = 3
    /\ consumed[1].qname = "r4" /\ consumed[2].qname = "r2" /\ consumed[3].qname = "r3"
    /\ written[1].cigar = << <<0, 1>> >>
    /\ written[2] = consumed[2]
    /\ written[3] = consumed[3]
    /\ clip_total = 3 /\ clip_count = 1

====
